---- MODULE Spec2Model ----
(***************************************************************************)
(* Model of the AutoSinan investigation bot: InvestigationBot._login,      *)
(* InvestigationBot.start / __fill_form and NotificationResearcher.search  *)
(* with the requests it sends to the Sinan search endpoint.                *)
(*                                                                         *)
(* Strings are sequences of tokens (<<"form:", "username">>), so that      *)
(* str.strip(), the `in` substring test and f-string formatting are        *)
(* computed rather than assumed.  A Python dict is the sequence of its     *)
(* <<key, value>> items in insertion order.                                *)
(***************************************************************************)
EXTENDS Integers, Sequences, FiniteSets, TLC

VARIABLES
    pc,             \* position of the bot in start/_login/search
    sent,           \* every request handed to session.get/session.post, in order
    exit_msg,       \* message printed right before exit(1), or exception name
    patients,       \* rows of self.data.df (the patient names searched for)
    idx,            \* number of rows of the patient loop already finished
    base_payload,   \* NotificationResearcher.base_payload
    soup,           \* NotificationResearcher.soup (last parsed search page)
    paciente,       \* NotificationResearcher.paciente
    session_set,    \* __verify_login ran its setattr(app, "session", ...) loop
    login_payload,  \* local `payload` of _login
    login_action,   \* form.get("action") of the login form
    results,        \* value returned by the last search (sinan_response)
    investigated    \* open payloads handed to the investigator, per call

vars == <<pc, sent, exit_msg, patients, idx, base_payload, soup, paciente,
          session_set, login_payload, login_action, results, investigated>>

-----------------------------------------------------------------------------
(* Bounds of the model *)
MaxPatients == 2
MaxInputs == 3
MaxCols == 2
MaxCells == 2
MaxRows == 2

SeqsUpTo(S, n) == UNION {[1..k -> S] : k \in 0..n}

-----------------------------------------------------------------------------
(* Python values *)

\* Python None where a string is expected (attribute missing, dict.get miss)
None == <<"<None>">>

\* soup.find(...) found nothing
NoTag == [kind |-> "None"]

valid_tag(tag) ==
    IF tag.kind = "None" \/ tag.kind = "NavigableString" THEN NoTag ELSE tag

\* str.strip(): drop leading and trailing whitespace
IsSpace(tok) == tok \in {" ", "\n", "\t"}

RECURSIVE LStrip(_)
LStrip(s) ==
    IF s = <<>> THEN s
    ELSE IF IsSpace(Head(s)) THEN LStrip(Tail(s)) ELSE s

RECURSIVE RStrip(_)
RStrip(s) ==
    IF s = <<>> THEN s
    ELSE IF IsSpace(s[Len(s)]) THEN RStrip(SubSeq(s, 1, Len(s) - 1)) ELSE s

Strip(s) == RStrip(LStrip(s))

\* `sub in name` for a one-token needle
Contains(name, sub) == \E i \in 1..Len(name) : name[i] = sub

\* str(i) of a non-negative int, as decimal digits
DigitChar(d) ==
    CASE d = 0 -> "0" [] d = 1 -> "1" [] d = 2 -> "2" [] d = 3 -> "3"
      [] d = 4 -> "4" [] d = 5 -> "5" [] d = 6 -> "6" [] d = 7 -> "7"
      [] d = 8 -> "8" [] d = 9 -> "9"

RECURSIVE Str(_)
Str(i) == IF i < 10 THEN <<DigitChar(i)>>
          ELSE Str(i \div 10) \o <<DigitChar(i % 10)>>

-----------------------------------------------------------------------------
(* dict operations *)

DictKeys(d) == [i \in 1..Len(d) |-> d[i][1]]

DictHas(d, k) == \E i \in 1..Len(d) : d[i][1] = k

DictGet(d, k) ==
    IF DictHas(d, k) THEN d[CHOOSE i \in 1..Len(d) : d[i][1] = k][2] ELSE None

\* d[k] = v : overwrite in place, else append
DictSet(d, k, v) ==
    IF DictHas(d, k)
    THEN [i \in 1..Len(d) |-> IF d[i][1] = k THEN <<k, v>> ELSE d[i]]
    ELSE Append(d, <<k, v>>)

\* d.update(items)
RECURSIVE DictUpdate(_, _)
DictUpdate(d, items) ==
    IF items = <<>> THEN d
    ELSE DictUpdate(DictSet(d, Head(items)[1], Head(items)[2]), Tail(items))

\* d.pop(k, None)
RECURSIVE DictPop(_, _)
DictPop(d, k) ==
    IF d = <<>> THEN d
    ELSE IF Head(d)[1] = k THEN DictPop(Tail(d), k)
    ELSE <<Head(d)>> \o DictPop(Tail(d), k)

\* zip(a, b): stops at the shorter one
Min(a, b) == IF a <= b THEN a ELSE b
Zip(a, b) == [i \in 1..Min(Len(a), Len(b)) |-> <<a[i], b[i]>>]

-----------------------------------------------------------------------------
(* Parsed HTML documents: what soup.find(...) returns for each locator used *)

EmptyDoc ==
    [form           |-> NoTag,   \* soup.find("form")
     detalheUsuario |-> NoTag,   \* soup.find("div", {"id": "detalheUsuario"})
     viewstate      |-> NoTag,   \* soup.find("input", {"name": "javax.faces.ViewState"})
     select         |-> NoTag,   \* soup.find("select", {"id": "form:consulta_tipoCampo"})
     span           |-> NoTag,   \* soup.find("span", {"id": "form:panelResultadoPesquisa"})
     thead          |-> NoTag,   \* soup.find("thead", {"class": "rich-table-thead"})
     tbody          |-> NoTag]   \* soup.find("tbody", {"id": "form:tabelaResultadoPesquisa:tb"})

Tag == [kind |-> "Tag"]

-----------------------------------------------------------------------------
(* Requests *)

LOGIN_URL == <<"SINAN_BASE_URL", "/sinan/login/login.jsf">>
ENDPOINT == <<"SINAN_BASE_URL", "/sinan/secured/consultar/consultarNotificacao.jsf">>

Request(method, url, data, ok, res) ==
    [method |-> method, url |-> url, data |-> data, ok |-> ok, res |-> res]

-----------------------------------------------------------------------------
(* InvestigationBot._login *)

USERNAME == <<"user">>
PASSWORD == <<"secret">>

\* the loop over form.find_all("input"); `"username" in None` raises TypeError
RECURSIVE LoginPayloadLoop(_, _)
LoginPayloadLoop(inputs, payload) ==
    IF inputs = <<>> THEN [raised |-> FALSE, payload |-> payload]
    ELSE LET name  == Head(inputs).name
             value == Head(inputs).value
         IN  IF name = None THEN [raised |-> TRUE, payload |-> payload]
             ELSE LoginPayloadLoop(Tail(inputs),
                     DictSet(payload, name,
                             IF Contains(name, "username") THEN USERNAME
                             ELSE IF Contains(name, "password") THEN PASSWORD
                             ELSE value))

\* variant: a page without form is not rejected, an empty payload is posted
LoginBuild_no_check(doc) ==
    LET form == valid_tag(doc.form)
    IN  IF form.kind = "None"
        THEN [pc |-> "login_post", msg |-> <<>>, payload |-> <<>>, action |-> None]
        ELSE LET r == LoginPayloadLoop(form.inputs, <<>>)
             IN  IF r.raised
                 THEN [pc |-> "raised", msg |-> <<"TypeError">>,
                       payload |-> r.payload, action |-> None]
                 ELSE [pc |-> "login_post", msg |-> <<>>,
                       payload |-> r.payload, action |-> form.action]

\* _login from the parsed login page up to the login POST
LoginBuild(doc) ==
    LET form == valid_tag(doc.form)
    IN  IF form.kind = "None"
        THEN [pc |-> "exit", msg |-> <<"Login Form not found.">>,
              payload |-> <<>>, action |-> None]
        ELSE LET r == LoginPayloadLoop(form.inputs, <<>>)
             IN  IF r.raised
                 THEN [pc |-> "raised", msg |-> <<"TypeError">>,
                       payload |-> r.payload, action |-> None]
                 ELSE [pc |-> "login_post", msg |-> <<>>,
                       payload |-> r.payload, action |-> form.action]

\* variant: the marker check always succeeds
LoginVerified_always(doc) == TRUE

\* __verify_login: the post-login marker is present
LoginVerified(doc) == doc.detalheUsuario.kind # "None"

-----------------------------------------------------------------------------
(* NotificationResearcher *)

K_VIEWSTATE == <<"javax.faces.ViewState">>
K_TIPO_CAMPO == <<"form:consulta_tipoCampo">>
K_TEXTO == <<"form:consulta_dsTextoPesquisa">>
K_J161 == <<"form:j_id161">>
K_J108 == <<"form:j_id108">>
K_J136 == <<"form:j_id136">>
K_BTN_ADD == <<"form:btnAdicionarCriterio">>
K_BTN_PESQ == <<"form:btnPesquisar">>
OPEN_PAYLOAD == <<"open_payload">>
CRITERIO == <<"Nome do paciente">>
AGRAVO == <<"A90 - DENGUE">>

\* base_payload as built by __init__
InitBasePayload ==
    << <<<<"AJAXREQUEST">>, <<"_viewRoot">>>>,
       <<<<"form">>, <<"form">>>>,
       <<<<"form:consulta_tipoPeriodo">>, <<"0">>>>,
       <<<<"form:consulta_dataInicialInputDate">>, <<"CURRENT_YEAR_FIRST_DAY %d/%m/%Y">>>>,
       <<<<"form:consulta_dataInicialInputCurrentDate">>, <<"TODAY %m/%Y">>>>,
       <<<<"form:consulta_dataFinalInputDate">>, <<"TODAY %d/%m/%Y">>>>,
       <<<<"form:consulta_dataFinalInputCurrentDate">>, <<"TODAY %m/%Y">>>>,
       <<<<"form:richagravocomboboxField">>, AGRAVO>>,
       <<<<"form:richagravo">>, AGRAVO>>,
       <<<<"form:tipoUf">>, <<"3">>>>,
       <<<<"form:consulta_uf">>, <<"24">>>>,
       <<<<"form:tipoSaida">>, <<"2">>>>,
       <<K_TIPO_CAMPO, <<"0">>>>,
       <<<<"form:consulta_municipio_uf_id">>, <<"0">>>>,
       <<K_J161, <<"Selecione valor no campo">>>> >>

\* variant: search selects the criterion before the agravo
search_order_swapped(step) ==
    CASE step = "define_javax_faces" -> "selecionar_criterio_campo"
      [] step = "selecionar_criterio_campo" -> "selecionar_agravo"
      [] step = "selecionar_agravo" -> "adicionar_criterio"
      [] step = "adicionar_criterio" -> "pesquisar"
      [] step = "pesquisar" -> "fill_form"

\* the order in which search runs its steps (__selecionar_criterio_campo
\* calls __adicionar_criterio itself)
search_order(step) ==
    CASE step = "define_javax_faces" -> "selecionar_agravo"
      [] step = "selecionar_agravo" -> "selecionar_criterio_campo"
      [] step = "selecionar_criterio_campo" -> "adicionar_criterio"
      [] step = "adicionar_criterio" -> "pesquisar"
      [] step = "pesquisar" -> "fill_form"

\* variant: a token already held is kept (setdefault instead of assignment)
define_javax_faces_keep_token(bp, doc) ==
    LET javax_faces == valid_tag(doc.viewstate)
    IN  IF javax_faces.kind = "None"
        THEN [pc |-> "exit", msg |-> <<"Java Faces not found.">>,
              base_payload |-> bp]
        ELSE [pc |-> search_order("define_javax_faces"), msg |-> <<>>,
              base_payload |-> IF DictHas(bp, K_VIEWSTATE) THEN bp
                               ELSE DictSet(bp, K_VIEWSTATE, javax_faces.value)]

\* variant: a missing input is logged but the call goes on without exit(1)
define_javax_faces_no_exit(bp, doc) ==
    LET javax_faces == valid_tag(doc.viewstate)
    IN  IF javax_faces.kind = "None"
        THEN [pc |-> search_order("define_javax_faces"), msg |-> <<>>,
              base_payload |-> DictSet(bp, K_VIEWSTATE, None)]
        ELSE [pc |-> search_order("define_javax_faces"), msg |-> <<>>,
              base_payload |-> DictSet(bp, K_VIEWSTATE, javax_faces.value)]

\* __define_javax_faces after the GET returned `doc`
define_javax_faces(bp, doc) ==
    LET javax_faces == valid_tag(doc.viewstate)
    IN  IF javax_faces.kind = "None"
        THEN [pc |-> "exit", msg |-> <<"Java Faces not found.">>,
              base_payload |-> bp]
        ELSE [pc |-> search_order("define_javax_faces"), msg |-> <<>>,
              base_payload |-> DictSet(bp, K_VIEWSTATE, javax_faces.value)]

\* variant: the step updates base_payload itself (the .copy() is missing)
base_after_alias(bp, payload) == payload

\* base_payload after a step built `payload` by updating self.base_payload.copy()
base_after_copy(bp, payload) == bp

\* payload of __selecionar_agravo
selecionar_agravo_payload(bp) ==
    DictUpdate(bp, << <<K_J108, K_J108>>,
                      <<<<"AJAX:EVENTS_COUNT">>, <<"1">>>> >>)

\* variant: the placeholder form:j_id161 is not popped
adicionar_criterio_payload_keep(bp, pac) ==
    DictUpdate(bp, << <<K_TIPO_CAMPO, <<"13">>>>,
                      <<<<"form:consulta_operador">>, <<"2">>>>,
                      <<<<"form:consulta_municipio_uf_id">>, <<"0">>>>,
                      <<K_TEXTO, pac>>,
                      <<K_BTN_ADD, K_BTN_ADD>> >>)

\* payload of __adicionar_criterio
adicionar_criterio_payload(bp, pac) ==
    DictPop(DictUpdate(bp, << <<K_TIPO_CAMPO, <<"13">>>>,
                              <<<<"form:consulta_operador">>, <<"2">>>>,
                              <<<<"form:consulta_municipio_uf_id">>, <<"0">>>>,
                              <<K_TEXTO, pac>>,
                              <<K_BTN_ADD, K_BTN_ADD>> >>),
            K_J161)

\* variant: the last option with the label is taken instead of the first
FindCriterio_last(options) ==
    IF \E i \in 1..Len(options) : Strip(options[i].text) = CRITERIO
    THEN LET i == CHOOSE i \in 1..Len(options) :
                    /\ Strip(options[i].text) = CRITERIO
                    /\ \A j \in (i + 1)..Len(options) : Strip(options[j].text) # CRITERIO
         IN  [kind |-> "Tag", value |-> options[i].value]
    ELSE NoTag

\* variant: falls back to the first option when the label is not found
FindCriterio_fallback(options) ==
    IF \E i \in 1..Len(options) : Strip(options[i].text) = CRITERIO
    THEN LET i == CHOOSE i \in 1..Len(options) :
                    /\ Strip(options[i].text) = CRITERIO
                    /\ \A j \in 1..(i - 1) : Strip(options[j].text) # CRITERIO
         IN  [kind |-> "Tag", value |-> options[i].value]
    ELSE IF options # <<>> THEN [kind |-> "Tag", value |-> options[1].value]
    ELSE NoTag

\* next(option for option in options if option.text.strip() == CRITERIO, None)
FindCriterio(options) ==
    IF \E i \in 1..Len(options) : Strip(options[i].text) = CRITERIO
    THEN LET i == CHOOSE i \in 1..Len(options) :
                    /\ Strip(options[i].text) = CRITERIO
                    /\ \A j \in 1..(i - 1) : Strip(options[j].text) # CRITERIO
         IN  [kind |-> "Tag", value |-> options[i].value]
    ELSE NoTag

\* __selecionar_criterio_campo up to its own POST
selecionar_criterio_campo(bp, doc) ==
    IF doc.select.kind = "None"
    THEN [pc |-> "raised", msg |-> <<"AttributeError">>, post |-> FALSE,
          payload |-> <<>>]
    ELSE LET tipo_campo == FindCriterio(doc.select.options)
         IN  IF tipo_campo.kind = "None"
             THEN [pc |-> "exit", msg |-> <<"Criterio Nome do paciente not found.">>,
                   post |-> FALSE, payload |-> <<>>]
             ELSE [pc |-> search_order("selecionar_criterio_campo"), msg |-> <<>>,
                   post |-> TRUE,
                   payload |-> DictUpdate(bp,
                       << <<K_TIPO_CAMPO, tipo_campo.value>>,
                          <<K_J136, K_J136>>,
                          <<<<"ajaxSingle">>, K_TIPO_CAMPO>> >>)]

\* payload of __pesquisar
pesquisar_payload(bp) == DictUpdate(bp, << <<K_BTN_PESQ, K_BTN_PESQ>> >>)

\* f"form:tabelaResultadoPesquisa:{i}:visualizarNotificacao"
RowKey(i) ==
    <<"form:tabelaResultadoPesquisa:">> \o Str(i) \o <<":visualizarNotificacao">>

\* the payload attached to row i
OpenPayload(bp, i) == DictUpdate(bp, << <<RowKey(i), RowKey(i)>> >>)

\* variant: the result span is not required
HasResultTable_no_span(doc) ==
    /\ valid_tag(doc.thead).kind # "None"
    /\ valid_tag(doc.tbody).kind # "None"

\* not (thead and tbody and reult_tag)
HasResultTable(doc) ==
    /\ valid_tag(doc.thead).kind # "None"
    /\ valid_tag(doc.tbody).kind # "None"
    /\ doc.span.kind # "None"

\* variant: header labels are not trimmed
ColumnNames_no_strip(ths) == [j \in 1..Len(ths) |-> ths[j].span.text]

\* [th.span.text.strip() for th in thead.find_all("th")]
ColumnNames(ths) == [j \in 1..Len(ths) |-> Strip(ths[j].span.text)]

\* variant: the payload is built once before the loop and reused, so row i
\* also carries the fields of the rows before it
RowRecord_shared(bp, column_names, row, i) ==
    LET row_values == [j \in 1..Len(row) |-> Strip(row[j])]
        value == DictUpdate(<<>>, Zip(column_names, row_values))
    IN  DictSet(value, OPEN_PAYLOAD,
                DictUpdate(bp, [n \in 1..(i + 1) |-> <<RowKey(n - 1), RowKey(n - 1)>>]))

\* variant: the row field is numbered from one
RowRecord_one_based(bp, column_names, row, i) ==
    LET row_values == [j \in 1..Len(row) |-> Strip(row[j])]
        value == DictUpdate(<<>>, Zip(column_names, row_values))
    IN  DictSet(value, OPEN_PAYLOAD, OpenPayload(bp, i + 1))

\* one iteration of the row loop: i is the index given by enumerate
RowRecord(bp, column_names, row, i) ==
    LET row_values == [j \in 1..Len(row) |-> Strip(row[j])]
        value == DictUpdate(<<>>, Zip(column_names, row_values))
    IN  DictSet(value, OPEN_PAYLOAD, OpenPayload(bp, i))

\* variant: the row loop updates self.base_payload itself, so every record
\* holds the one shared dict
tratar_resultado_shared(bp, doc) ==
    IF ~HasResultTable(doc)
    THEN [raised |-> FALSE, values |-> <<>>, base_payload |-> bp]
    ELSE IF \E j \in 1..Len(doc.thead.ths) : doc.thead.ths[j].span.kind = "None"
    THEN [raised |-> TRUE, values |-> <<>>, base_payload |-> bp]
    ELSE LET column_names == ColumnNames(doc.thead.ths)
             trs == doc.tbody.trs
             shared == DictUpdate(bp, [n \in 1..Len(trs) |->
                                          <<RowKey(n - 1), RowKey(n - 1)>>])
         IN  [raised |-> FALSE,
              values |-> [n \in 1..Len(trs) |->
                             DictSet(RowRecord(bp, column_names, trs[n], n - 1),
                                     OPEN_PAYLOAD, shared)],
              base_payload |-> shared]

\* tratar_resultado; th.span is None for a th without span (AttributeError).
\* base_payload: self.base_payload when it returns (each row works on a copy)
tratar_resultado(bp, doc) ==
    IF ~HasResultTable(doc)
    THEN [raised |-> FALSE, values |-> <<>>, base_payload |-> bp]
    ELSE IF \E j \in 1..Len(doc.thead.ths) : doc.thead.ths[j].span.kind = "None"
    THEN [raised |-> TRUE, values |-> <<>>, base_payload |-> bp]
    ELSE LET column_names == ColumnNames(doc.thead.ths)
             trs == doc.tbody.trs
         IN  [raised |-> FALSE,
              values |-> [n \in 1..Len(trs) |->
                             RowRecord(bp, column_names, trs[n], n - 1)],
              base_payload |-> bp]

-----------------------------------------------------------------------------
(* What the server may answer *)

\* row i of the patient sheet
PatientRow(i) == IF i % 2 = 1 THEN <<"ANA">> ELSE <<"BOB">>

\* the sheets loaded by the data manager: the first n rows, n up to the bound
PatientSheets(n) == {[i \in 1..k |-> PatientRow(i)] : k \in 0..n}

N_USER == <<"form:", "username">>
N_PASS == <<"form:", "password">>
N_HIDDEN == <<"javax.faces.ViewState">>
N_BUTTON == <<"form:", "j_id1">>

Input(name, value) == [name |-> name, value |-> value]

Form(inputs) ==
    [kind |-> "Tag", action |-> <<"/sinan/login/login.jsf">>, inputs |-> inputs]

\* input tags: any of the names or no name attribute, a value or no value attribute
LoginInputs ==
    {Input(n, v) : n \in {N_USER, N_PASS, N_HIDDEN, N_BUTTON, None},
                   v \in {<<"v0">>, None}}

LoginPagesAll ==
    {EmptyDoc} \cup
    {[EmptyDoc EXCEPT !.form = Form(inputs)] : inputs \in SeqsUpTo(LoginInputs, MaxInputs)}

LoginPagesSmall ==
    {EmptyDoc,
     [EmptyDoc EXCEPT !.form = Form(<<Input(N_HIDDEN, <<"v0">>),
                                      Input(N_USER, None),
                                      Input(N_PASS, None)>>)]}

LoginResponses == {EmptyDoc, [EmptyDoc EXCEPT !.detalheUsuario = Tag]}

Option(text, value) == [text |-> text, value |-> value]

OptionLists ==
    { <<>>,
      <<Option(<<"Selecione">>, <<"0">>), Option(<<" ", "Nome do paciente", "\n">>, <<"13">>)>>,
      <<Option(<<"Nome do paciente">>, <<"7">>), Option(<<"Nome do paciente">>, <<"13">>)>>,
      <<Option(<<"Selecione">>, <<"0">>), Option(<<"Nome da mae">>, <<"9">>)>> }

ViewStateTags ==
    {NoTag} \cup {[kind |-> "Tag", value |-> v] : v \in {<<"tokA">>, <<"tokB">>, None}}

SelectTags == {NoTag} \cup {[kind |-> "Tag", options |-> o] : o \in OptionLists}

SearchPages ==
    {[EmptyDoc EXCEPT !.viewstate = v, !.select = s] : v \in ViewStateTags, s \in SelectTags}

SearchPagesOne ==
    {[EmptyDoc EXCEPT !.viewstate = [kind |-> "Tag", value |-> <<"tokA">>],
                      !.select = [kind |-> "Tag", options |-> o]] :
        o \in {<<Option(<<"Nome do paciente">>, <<"13">>)>>}}

Th(text) == [span |-> [kind |-> "Tag", text |-> text]]
ThNoSpan == [span |-> NoTag]

HeaderCells ==
    {ThNoSpan} \cup
    {Th(t) : t \in {<<"Nome", " ">>, <<"\n", "UF", " ">>, OPEN_PAYLOAD}}

CellTexts == {<<" ", "ANA">>, <<"SC">>}

\* a row of w cells: any of the texts in the first cell, then numbered cells
RowOf(t, w) == [j \in 1..w |-> IF j = 1 THEN t ELSE <<"\n", DigitChar(j), " ">>]

Rows(n) == {<<>>} \cup {RowOf(t, w) : t \in CellTexts, w \in 1..n}

Thead(ths) == [kind |-> "Tag", ths |-> ths]
Tbody(trs) == [kind |-> "Tag", trs |-> trs]

\* the tables used where only the presence of the three elements matters
SomeTheads == {Thead(<<Th(<<"Nome", " ">>), Th(<<"\n", "UF", " ">>)>>)}

SomeTbodies ==
    {Tbody(trs) : trs \in {<<>>, << <<<<"ANA">>, <<"SC">>>> >>,
                            << <<<<"ANA">>, <<"SC">>>>, <<<<" ", "ANA">>, <<"SC">>>> >>}}

\* pages lacking at least one of the result span, the thead and the tbody
ResultPagesMissing ==
    {[EmptyDoc EXCEPT !.span = sp, !.thead = th, !.tbody = tb] :
        sp \in {NoTag, Tag},
        th \in {NoTag} \cup SomeTheads,
        tb \in {NoTag} \cup SomeTbodies}
    \ {[EmptyDoc EXCEPT !.span = Tag, !.thead = th, !.tbody = tb] :
        th \in SomeTheads, tb \in SomeTbodies}

\* pages with all three, over every table of the bounded shape
ResultPagesTable ==
    {[EmptyDoc EXCEPT !.span = Tag, !.thead = Thead(ths), !.tbody = Tbody(trs)] :
        ths \in SeqsUpTo(HeaderCells, MaxCols),
        trs \in SeqsUpTo(Rows(MaxCells), MaxRows)}

ResultPagesAll == ResultPagesMissing \cup ResultPagesTable

ResultPagesSmall ==
    {EmptyDoc} \cup
    {[EmptyDoc EXCEPT !.span = Tag, !.thead = th, !.tbody = tb] :
        th \in SomeTheads, tb \in SomeTbodies \ {Tbody(<<>>)}}

-----------------------------------------------------------------------------
(* The bot *)

InitN(n) ==
    /\ pc = "login_get"
    /\ sent = <<>>
    /\ exit_msg = <<>>
    /\ patients \in PatientSheets(n)
    /\ idx = 0
    /\ base_payload = InitBasePayload
    /\ soup = EmptyDoc
    /\ paciente = None
    /\ session_set = FALSE
    /\ login_payload = <<>>
    /\ login_action = None
    /\ results = <<>>
    /\ investigated = <<>>

Init == InitN(MaxPatients)

\* variant: a failed request is caught and the step is run again
TransportFailure_retry(method, url, data) ==
    /\ sent' = Append(sent, Request(method, url, data, FALSE, EmptyDoc))
    /\ pc' = pc
    /\ exit_msg' = exit_msg

\* a request that fails in transport: requests raises, nothing catches it
TransportFailure(method, url, data) ==
    /\ sent' = Append(sent, Request(method, url, data, FALSE, EmptyDoc))
    /\ pc' = "raised"
    /\ exit_msg' = <<"RequestException">>

\* _login: GET of the login page, form lookup, payload construction
LoginGet(pages) ==
    /\ pc = "login_get"
    /\ \/ \E doc \in pages :
            LET r == LoginBuild(doc)
            IN  /\ sent' = Append(sent, Request("GET", LOGIN_URL, <<>>, TRUE, doc))
                /\ pc' = r.pc
                /\ exit_msg' = r.msg
                /\ login_payload' = r.payload
                /\ login_action' = r.action
       \/ /\ TransportFailure("GET", LOGIN_URL, <<>>)
          /\ UNCHANGED <<login_payload, login_action>>
    /\ UNCHANGED <<patients, idx, base_payload, soup, paciente, session_set,
                   results, investigated>>

\* _login: POST of the payload, then __verify_login
LoginPost ==
    /\ pc = "login_post"
    /\ LET url == <<"SINAN_BASE_URL">> \o login_action
       IN  \/ \E doc \in LoginResponses :
                /\ sent' = Append(sent, Request("POST", url, login_payload, TRUE, doc))
                /\ IF LoginVerified(doc)
                   THEN /\ pc' = "loop"
                        /\ exit_msg' = exit_msg
                        /\ session_set' = TRUE
                   ELSE /\ pc' = "exit"
                        /\ exit_msg' = <<"Falha no Login">>
                        /\ session_set' = session_set
           \/ /\ TransportFailure("POST", url, login_payload)
              /\ UNCHANGED session_set
    /\ UNCHANGED <<patients, idx, base_payload, soup, paciente,
                   login_payload, login_action, results, investigated>>

\* start: next row of the patient loop -> __fill_form -> search -> __define_javax_faces
DefineJavaxFaces(pages) ==
    /\ pc = "loop"
    /\ idx < Len(patients)
    /\ paciente' = patients[idx + 1]
    /\ \/ \E doc \in pages :
            LET r == define_javax_faces(base_payload, doc)
            IN  /\ sent' = Append(sent, Request("GET", ENDPOINT, <<>>, TRUE, doc))
                /\ soup' = doc
                /\ pc' = r.pc
                /\ exit_msg' = r.msg
                /\ base_payload' = r.base_payload
       \/ /\ TransportFailure("GET", ENDPOINT, <<>>)
          /\ UNCHANGED <<soup, base_payload>>
    /\ UNCHANGED <<patients, idx, session_set, login_payload, login_action,
                   results, investigated>>

\* a POST to the search endpoint whose answer is only an acknowledgment
PostStep(step, payload) ==
    /\ \/ /\ sent' = Append(sent, Request("POST", ENDPOINT, payload, TRUE, EmptyDoc))
          /\ pc' = search_order(step)
          /\ exit_msg' = exit_msg
       \/ TransportFailure("POST", ENDPOINT, payload)
    /\ base_payload' = base_after_copy(base_payload, payload)
    /\ UNCHANGED <<patients, idx, soup, paciente, session_set,
                   login_payload, login_action, results, investigated>>

SelecionarAgravo ==
    /\ pc = "selecionar_agravo"
    /\ PostStep("selecionar_agravo", selecionar_agravo_payload(base_payload))

SelecionarCriterioCampo ==
    /\ pc = "selecionar_criterio_campo"
    /\ LET r == selecionar_criterio_campo(base_payload, soup)
       IN  IF r.post
           THEN PostStep("selecionar_criterio_campo", r.payload)
           ELSE /\ pc' = r.pc
                /\ exit_msg' = r.msg
                /\ UNCHANGED <<sent, patients, idx, base_payload, soup, paciente,
                               session_set, login_payload, login_action,
                               results, investigated>>

AdicionarCriterio ==
    /\ pc = "adicionar_criterio"
    /\ PostStep("adicionar_criterio", adicionar_criterio_payload(base_payload, paciente))

\* __pesquisar and tratar_resultado on its response; search returns
Pesquisar(pages) ==
    /\ pc = "pesquisar"
    /\ LET payload == pesquisar_payload(base_payload)
       IN  \/ \E doc \in pages :
                LET r == tratar_resultado(base_after_copy(base_payload, payload), doc)
                IN  /\ sent' = Append(sent, Request("POST", ENDPOINT, payload, TRUE, doc))
                    /\ base_payload' = r.base_payload
                    /\ IF r.raised
                       THEN /\ pc' = "raised"
                            /\ exit_msg' = <<"AttributeError">>
                            /\ results' = results
                       ELSE /\ pc' = search_order("pesquisar")
                            /\ exit_msg' = exit_msg
                            /\ results' = r.values
           \/ /\ TransportFailure("POST", ENDPOINT, payload)
              /\ base_payload' = base_after_copy(base_payload, payload)
              /\ UNCHANGED results
    /\ UNCHANGED <<patients, idx, soup, paciente, session_set,
                   login_payload, login_action, investigated>>

\* variant: only the first open payload is passed on, whatever the count
HandOver_first_only(inv, open_payloads) ==
    IF Len(open_payloads) = 0 THEN inv
    ELSE Append(inv, <<open_payloads[1]>>)

\* the match of __fill_form: nothing, investigate(first), investigate_multiple(all)
HandOver(inv, open_payloads) ==
    IF Len(open_payloads) = 0 THEN inv
    ELSE IF Len(open_payloads) = 1 THEN Append(inv, <<open_payloads[1]>>)
    ELSE Append(inv, open_payloads)

\* __fill_form after search returned: the open payloads go to the investigator
FillForm ==
    /\ pc = "fill_form"
    /\ LET open_payloads == [i \in 1..Len(results) |-> DictGet(results[i], OPEN_PAYLOAD)]
       IN  investigated' = HandOver(investigated, open_payloads)
    /\ idx' = idx + 1
    /\ pc' = "loop"
    /\ UNCHANGED <<sent, exit_msg, patients, base_payload, soup, paciente,
                   session_set, login_payload, login_action, results>>

\* start: the patient loop is exhausted
Finish ==
    /\ pc = "loop"
    /\ idx = Len(patients)
    /\ pc' = "done"
    /\ UNCHANGED <<sent, exit_msg, patients, idx, base_payload, soup, paciente,
                   session_set, login_payload, login_action, results, investigated>>

Next ==
    \/ LoginGet(LoginPagesSmall)
    \/ LoginPost
    \/ DefineJavaxFaces(SearchPages)
    \/ SelecionarAgravo
    \/ SelecionarCriterioCampo
    \/ AdicionarCriterio
    \/ Pesquisar(ResultPagesSmall)
    \/ FillForm
    \/ Finish

Spec == Init /\ [][Next]_vars

\* the login alone, over every login form of the bounded shape
NextLogin ==
    \/ LoginGet(LoginPagesAll)
    \/ LoginPost

SpecLogin == Init /\ [][NextLogin]_vars

\* one search, over every results page of the bounded shape
InitParse == InitN(1) /\ patients # <<>>

NextParse ==
    \/ LoginGet(LoginPagesSmall)
    \/ LoginPost
    \/ DefineJavaxFaces(SearchPagesOne)
    \/ SelecionarAgravo
    \/ SelecionarCriterioCampo
    \/ AdicionarCriterio
    \/ Pesquisar(ResultPagesAll)
    \/ FillForm
    \/ Finish

SpecParse == InitParse /\ [][NextParse]_vars

-----------------------------------------------------------------------------
(* Reading the request log *)

IsEndpoint(r) == r.url = ENDPOINT

EndpointReqs == SelectSeq(sent, IsEndpoint)

\* which protocol step a request to the search endpoint is, read off its payload
Kind(r) ==
    IF r.method = "GET" THEN "view_state"
    ELSE IF DictHas(r.data, K_J108) THEN "filter_select"
    ELSE IF DictHas(r.data, K_J136) THEN "criterion_select"
    ELSE IF DictHas(r.data, K_BTN_ADD) THEN "criterion_add"
    ELSE IF DictHas(r.data, K_BTN_PESQ) THEN "search"
    ELSE "other"

Pattern == <<"view_state", "filter_select", "criterion_select", "criterion_add", "search">>

\* index in `sent` of the last GET of the search page before position i (0: none)
LastGetBefore(i) ==
    LET gets == {j \in 1..(i - 1) : IsEndpoint(sent[j]) /\ sent[j].method = "GET"}
    IN  IF gets = {} THEN 0 ELSE CHOOSE j \in gets : \A m \in gets : m <= j

\* which search call (1-based row of the patient loop) request i belongs to
CallNo(i) ==
    Cardinality({j \in 1..i : IsEndpoint(sent[j]) /\ sent[j].method = "GET"})

Last(seq) == seq[Len(seq)]

Labelled(options) == {k \in 1..Len(options) : Strip(options[k].text) = CRITERIO}

-----------------------------------------------------------------------------
\* C1: in every search call the requests to the search endpoint are, in this
\* order, view-state GET, filter-select POST, criterion-select POST,
\* criterion-add POST, execute-search POST; every request but the last one
\* sent had returned, nothing else is sent in between, and a call that ran to
\* completion sent all five.
C1_RequestOrder ==
    /\ \A i \in 1..Len(EndpointReqs) :
          /\ Kind(EndpointReqs[i]) = Pattern[((i - 1) % 5) + 1]
          /\ i < Len(EndpointReqs) => EndpointReqs[i].ok
    /\ \A i \in 1..Len(sent) : IsEndpoint(sent[i]) =>
          \A j \in i..Len(sent) : IsEndpoint(sent[j])
    /\ pc = "fill_form" => /\ Len(EndpointReqs) = 5 * (idx + 1)
                           /\ Last(EndpointReqs).ok

C1_Witness ==
    /\ pc = "fill_form"
    /\ idx = 1
    /\ Len(EndpointReqs) = 10

\* C2: every POST of a search call, and every open payload built from its
\* result, carries as javax.faces.ViewState the token of the page fetched by
\* the view-state GET of that same call.
C2_FreshViewState ==
    /\ \A i \in 1..Len(sent) :
          (IsEndpoint(sent[i]) /\ sent[i].method = "POST") =>
             LET g == LastGetBefore(i)
             IN  /\ g > 0
                 /\ sent[g].res.viewstate.kind = "Tag"
                 /\ DictHas(sent[i].data, K_VIEWSTATE)
                 /\ DictGet(sent[i].data, K_VIEWSTATE) = sent[g].res.viewstate.value
    /\ pc = "fill_form" =>
          LET g == LastGetBefore(Len(sent))
          IN  \A n \in 1..Len(results) :
                 LET op == DictGet(results[n], OPEN_PAYLOAD)
                 IN  /\ DictHas(op, K_VIEWSTATE)
                     /\ DictGet(op, K_VIEWSTATE) = sent[g].res.viewstate.value

C2_Witness ==
    /\ pc = "fill_form"
    /\ idx = 1
    /\ Len(results) > 0
    /\ EndpointReqs[1].res.viewstate.value # EndpointReqs[6].res.viewstate.value
    /\ DictGet(Last(sent).data, K_VIEWSTATE) = EndpointReqs[6].res.viewstate.value

\* C3: when the fetched search page has an option labelled "Nome do paciente",
\* the criterion-add POST carries that option's value as form:consulta_tipoCampo
\* and the search text of the call as form:consulta_dsTextoPesquisa.
C3_CriterionAddCarriesOption ==
    \A i \in 1..Len(sent) :
       (IsEndpoint(sent[i]) /\ Kind(sent[i]) = "criterion_add") =>
          LET options == sent[LastGetBefore(i)].res.select.options
              first == CHOOSE k \in Labelled(options) : \A m \in Labelled(options) : k <= m
          IN  /\ Labelled(options) # {}
              /\ DictGet(sent[i].data, K_TIPO_CAMPO) = options[first].value
              /\ DictGet(sent[i].data, K_TEXTO) = patients[CallNo(i)]

\* C4: if the field-type selector of the fetched page has no option labelled
\* "Nome do paciente", the search call ends in exit(1) without sending the
\* criterion-select, criterion-add or execute-search POST and without
\* returning a result list; nothing runs after the exit.
C4_MissingCriterionFatal ==
    /\ [][(/\ pc = "selecionar_criterio_campo"
           /\ soup.select.kind = "Tag"
           /\ Labelled(soup.select.options) = {})
          => (/\ pc' = "exit"
              /\ exit_msg' = <<"Criterio Nome do paciente not found.">>
              /\ sent' = sent
              /\ results' = results
              /\ investigated' = investigated)]_vars
    /\ [][pc # "exit"]_vars
    /\ [](exit_msg = <<"Criterio Nome do paciente not found.">>
            => /\ pc = "exit"
               /\ Kind(Last(sent)) = "filter_select")

C4_Witness ==
    /\ pc = "exit"
    /\ exit_msg = <<"Criterio Nome do paciente not found.">>
    /\ soup.select.kind = "Tag"
    /\ Len(soup.select.options) > 0
    /\ Labelled(soup.select.options) = {}

\* C5: if the page returned by the view-state GET has no javax.faces.ViewState
\* input, the search call ends in exit(1) before any POST is sent and the
\* tracked base payload, with any token of an earlier search, is unchanged.
C5_MissingViewStateFatal ==
    /\ [][(/\ pc = "loop"
           /\ Len(sent') = Len(sent) + 1
           /\ Last(sent').ok
           /\ Last(sent').res.viewstate.kind = "None")
          => (/\ pc' = "exit"
              /\ exit_msg' = <<"Java Faces not found.">>
              /\ base_payload' = base_payload)]_vars
    /\ [][pc # "exit"]_vars
    /\ [](exit_msg = <<"Java Faces not found.">>
            => /\ pc = "exit"
               /\ Last(sent).method = "GET"
               /\ IsEndpoint(Last(sent)))

C5_Witness ==
    /\ pc = "exit"
    /\ exit_msg = <<"Java Faces not found.">>
    /\ idx = 1
    /\ DictGet(base_payload, K_VIEWSTATE) = <<"tokA">>

\* C6: if the answer to the login POST lacks the detalheUsuario marker, login
\* ends in exit(1), no request goes to the search endpoint and no researcher
\* state is updated; every request to the search endpoint is preceded by a
\* login POST whose answer had the marker.
IsLoginPost(r) == r.method = "POST" /\ r.url = <<"SINAN_BASE_URL">> \o login_action

LoginRejected ==
    \E i \in 1..Len(sent) :
        IsLoginPost(sent[i]) /\ sent[i].ok /\ sent[i].res.detalheUsuario.kind = "None"

C6_NoSearchWithoutLogin ==
    /\ LoginRejected =>
          /\ pc = "exit"
          /\ EndpointReqs = <<>>
          /\ ~session_set
          /\ base_payload = InitBasePayload
          /\ soup = EmptyDoc
          /\ paciente = None
          /\ results = <<>>
          /\ investigated = <<>>
    /\ \A i \in 1..Len(sent) : IsEndpoint(sent[i]) =>
          \E j \in 1..(i - 1) :
              IsLoginPost(sent[j]) /\ sent[j].ok /\ sent[j].res.detalheUsuario.kind = "Tag"

C6_Witness ==
    /\ LoginRejected
    /\ pc = "exit"
    /\ exit_msg = <<"Falha no Login">>

\* C7: for a login form with N inputs, exactly one with a name containing
\* "username" and exactly one with a name containing "password", the payload
\* built by _login has N entries: the username field maps to the supplied
\* username, the password field to the supplied password, every other field
\* to its default value.
LoginFormInputs == sent[1].res.form.inputs

C7_LoginPayload ==
    (/\ Len(sent) = 1
     /\ sent[1].ok
     /\ sent[1].res.form.kind = "Tag"
     /\ Cardinality({i \in 1..Len(LoginFormInputs) :
                        Contains(LoginFormInputs[i].name, "username")}) = 1
     /\ Cardinality({i \in 1..Len(LoginFormInputs) :
                        Contains(LoginFormInputs[i].name, "password")}) = 1)
    => /\ pc = "login_post"
       /\ Len(login_payload) = Len(LoginFormInputs)
       /\ \A i \in 1..Len(LoginFormInputs) :
             LET name == LoginFormInputs[i].name
             IN  /\ DictHas(login_payload, name)
                 /\ DictGet(login_payload, name) =
                       IF Contains(name, "username") THEN USERNAME
                       ELSE IF Contains(name, "password") THEN PASSWORD
                       ELSE LoginFormInputs[i].value

\* The results page parsed by the last search
ResultDoc == Last(sent).res

\* search returned from a page that has the result span, thead and tbody,
\* every header cell having its label span
ParsedTable ==
    /\ Len(sent) > 0
    /\ Kind(Last(sent)) = "search"
    /\ Last(sent).ok
    /\ ResultDoc.span.kind = "Tag"
    /\ ResultDoc.thead.kind = "Tag"
    /\ ResultDoc.tbody.kind = "Tag"
    /\ \A j \in 1..Len(ResultDoc.thead.ths) : ResultDoc.thead.ths[j].span.kind = "Tag"

HeaderLabels ==
    [j \in 1..Len(ResultDoc.thead.ths) |-> Strip(ResultDoc.thead.ths[j].span.text)]

NotOpenPayload(k) == k # OPEN_PAYLOAD

\* n records in row order; keys (the attached open_payload aside) are the
\* trimmed labels in header order; value j is the trimmed text of cell j
RecordsMatchTable ==
    /\ pc \in {"fill_form", "loop", "done"}
    /\ Len(results) = Len(ResultDoc.tbody.trs)
    /\ \A n \in 1..Len(results) :
          LET rec == results[n]
              row == ResultDoc.tbody.trs[n]
          IN  /\ SelectSeq(DictKeys(rec), NotOpenPayload) = HeaderLabels
              /\ \A j \in 1..Len(HeaderLabels) :
                    /\ j <= Len(row)
                    /\ j <= Len(rec)
                    /\ rec[j][1] = HeaderLabels[j]
                    /\ rec[j][1] # OPEN_PAYLOAD
                    /\ rec[j][2] = Strip(row[j])

\* C8 (as claimed): for a results page with a result span, a header row of k
\* labels and n body rows, tratar_resultado returns n records in row order,
\* each with exactly the k trimmed labels as keys in header order and the
\* trimmed text of the j-th cell as j-th value.
C8_RecordsAsClaimed == ParsedTable => RecordsMatchTable

\* C8 (amended): the same, for header labels that are pairwise distinct after
\* trimming, none of them "open_payload", and rows of at least k cells.
WellShapedTable ==
    /\ \A i, j \in 1..Len(HeaderLabels) : i # j => HeaderLabels[i] # HeaderLabels[j]
    /\ \A j \in 1..Len(HeaderLabels) : HeaderLabels[j] # OPEN_PAYLOAD
    /\ \A n \in 1..Len(ResultDoc.tbody.trs) :
          Len(ResultDoc.tbody.trs[n]) >= Len(HeaderLabels)

C8_RecordsOfWellShapedTable == (ParsedTable /\ WellShapedTable) => RecordsMatchTable

C8_Witness ==
    /\ ParsedTable
    /\ WellShapedTable
    /\ pc = "fill_form"
    /\ Len(HeaderLabels) = 2
    /\ Len(results) = 2
    /\ ResultDoc.thead.ths[2].span.text # HeaderLabels[2]

\* C9: the open payload of the record at zero-based position i of a returned
\* list contains the field form:tabelaResultadoPesquisa:i:visualizarNotificacao.
PositionField(i) ==
    <<"form:tabelaResultadoPesquisa:", DigitChar(i), ":visualizarNotificacao">>

C9_RowIndexIsPosition ==
    pc = "fill_form" =>
       \A n \in 1..Len(results) :
          /\ DictHas(results[n], OPEN_PAYLOAD)
          /\ DictHas(DictGet(results[n], OPEN_PAYLOAD), PositionField(n - 1))

C9_Witness ==
    /\ pc = "fill_form"
    /\ Len(results) = MaxRows
    /\ DictHas(DictGet(results[MaxRows], OPEN_PAYLOAD), PositionField(MaxRows - 1))

\* C10: if the search response lacks the result span, the thead or the tbody,
\* tratar_resultado returns an empty list, raises nothing, exits nothing and
\* leaves the tracked base payload unchanged.
C10_MissingTableIsEmpty ==
    [][(/\ pc = "pesquisar"
        /\ Last(sent').ok
        /\ \/ Last(sent').res.span.kind = "None"
           \/ Last(sent').res.thead.kind = "None"
           \/ Last(sent').res.tbody.kind = "None")
       => (/\ pc' = "fill_form"
           /\ results' = <<>>
           /\ exit_msg' = exit_msg
           /\ base_payload' = base_payload)]_vars

C10_Witness ==
    /\ pc = "fill_form"
    /\ Kind(Last(sent)) = "search"
    /\ ResultDoc.span.kind = "None"
    /\ ResultDoc.thead.kind = "Tag"
    /\ ResultDoc.tbody.kind = "Tag"
    /\ Len(ResultDoc.tbody.trs) > 0
    /\ results = <<>>

\* C11: once the first search has stored a view-state token, no later step
\* of any search call changes the key set of the tracked base payload or the
\* value of any key other than javax.faces.ViewState.
C11_BasePayloadStable ==
    [][DictHas(base_payload, K_VIEWSTATE) =>
          /\ DictKeys(base_payload') = DictKeys(base_payload)
          /\ \A i \in 1..Len(base_payload) :
                base_payload[i][1] # K_VIEWSTATE => base_payload'[i] = base_payload[i]]_vars

C11_Witness ==
    /\ pc = "fill_form"
    /\ idx = 1
    /\ Len(results) > 0
    /\ DictGet(base_payload, K_VIEWSTATE) # EndpointReqs[1].res.viewstate.value
    /\ Len(base_payload) = Len(InitBasePayload) + 1

\* C12: the steps that derive a request (filter-select, criterion-select,
\* criterion-add, execute-search, open payload construction) leave the tracked
\* base payload unchanged; only the view-state fetch changes it, and only in
\* its javax.faces.ViewState entry.
C12_OnlyFetchChangesBase ==
    [][/\ pc \in {"selecionar_agravo", "selecionar_criterio_campo",
                  "adicionar_criterio", "pesquisar", "fill_form"}
          => base_payload' = base_payload
       /\ base_payload' # base_payload
          => /\ pc = "loop"
             /\ Len(sent') = Len(sent) + 1
             /\ Last(sent').method = "GET"
             /\ IsEndpoint(Last(sent'))
             /\ DictPop(base_payload', K_VIEWSTATE) = DictPop(base_payload, K_VIEWSTATE)]_vars

C12_Witness ==
    /\ pc = "fill_form"
    /\ Len(results) = 2
    /\ Last(sent).data # base_payload
    /\ DictGet(results[2], OPEN_PAYLOAD) # base_payload
    /\ base_payload = DictSet(InitBasePayload, K_VIEWSTATE,
                              sent[LastGetBefore(Len(sent))].res.viewstate.value)

\* C13: every open payload returned by a search is handed to the investigator
\* before the next search call is issued; between a search returning and the
\* hand-over no request is sent.
OpenPayloadsOf(res) == [i \in 1..Len(res) |-> DictGet(res[i], OPEN_PAYLOAD)]

C13_ConsumedBeforeNextSearch ==
    /\ [][pc = "fill_form" =>
             /\ sent' = sent
             /\ results # <<>> =>
                   /\ Len(investigated') = Len(investigated) + 1
                   /\ Last(investigated') = OpenPayloadsOf(results)]_vars
    /\ [][(Len(sent') > Len(sent) /\ IsEndpoint(Last(sent')) /\ Last(sent').method = "GET")
          => /\ pc = "loop"
             /\ results # <<>> =>
                   /\ investigated # <<>>
                   /\ Last(investigated) = OpenPayloadsOf(results)]_vars

C13_Witness ==
    /\ pc = "selecionar_agravo"
    /\ idx = 1
    /\ Len(results) = 2
    /\ Len(investigated) = 1
    /\ investigated[1] = OpenPayloadsOf(results)

\* C15: no request is retried: the login GET and the login POST are sent at
\* most once, each step of a search call sends its request at most once, and
\* after a request failed in transport or the login was rejected nothing more
\* is sent and nothing more runs.
IsLoginGet(r) == r.method = "GET" /\ r.url = LOGIN_URL

C15_NoRetry ==
    /\ [](/\ \A i \in 1..(Len(sent) - 1) : sent[i].ok
          /\ Cardinality({i \in 1..Len(sent) : IsLoginGet(sent[i])}) <= 1
          /\ Cardinality({i \in 1..Len(sent) :
                             ~IsEndpoint(sent[i]) /\ sent[i].method = "POST"}) <= 1
          /\ \A i, j \in 1..Len(sent) :
                (/\ i # j
                 /\ IsEndpoint(sent[i]) /\ IsEndpoint(sent[j])
                 /\ CallNo(i) = CallNo(j))
                => Kind(sent[i]) # Kind(sent[j])
          /\ (sent # <<>> /\ ~Last(sent).ok) => pc = "raised"
          /\ LoginRejected => (pc = "exit" /\ IsLoginPost(Last(sent))))
    /\ [][pc \notin {"raised", "exit"}]_vars

C15_Witness ==
    /\ pc = "raised"
    /\ idx = 1
    /\ ~Last(sent).ok
    /\ Kind(Last(sent)) = "criterion_add"

\* C16: if the page returned by the login GET has no form element, login ends
\* in exit(1) without sending the login POST and without running the login
\* verification.
C16_MissingLoginFormFatal ==
    /\ [][(/\ pc = "login_get"
           /\ Len(sent') = Len(sent) + 1
           /\ Last(sent').ok
           /\ Last(sent').res.form.kind = "None")
          => (/\ pc' = "exit"
              /\ exit_msg' = <<"Login Form not found.">>
              /\ login_payload' = <<>>
              /\ session_set' = FALSE)]_vars
    /\ [][pc # "exit"]_vars
    /\ [](exit_msg = <<"Login Form not found.">>
            => /\ pc = "exit"
               /\ Len(sent) = 1
               /\ IsLoginGet(sent[1])
               /\ ~session_set)

C16_Witness ==
    /\ pc = "exit"
    /\ exit_msg = <<"Login Form not found.">>
    /\ Len(sent) = 1
    /\ sent[1].res.form.kind = "None"

\* C17: the criterion identifier of the criterion-select POST is the value of
\* the first option labelled "Nome do paciente" in the page fetched by the
\* view-state GET of the same search call.
C17_CriterionFromOwnPage ==
    \A i \in 1..Len(sent) :
       (IsEndpoint(sent[i]) /\ Kind(sent[i]) = "criterion_select") =>
          LET options == sent[LastGetBefore(i)].res.select.options
              first == CHOOSE k \in Labelled(options) : \A m \in Labelled(options) : k <= m
          IN  /\ Labelled(options) # {}
              /\ DictGet(sent[i].data, K_TIPO_CAMPO) = options[first].value

C17_Witness ==
    /\ pc = "adicionar_criterio"
    /\ idx = 1
    /\ Cardinality(Labelled(soup.select.options)) = 2
    /\ DictGet(EndpointReqs[8].data, K_TIPO_CAMPO) = <<"7">>
    /\ DictGet(EndpointReqs[3].data, K_TIPO_CAMPO) = <<"13">>

\* C18: form:j_id161 is missing from the criterion-add payload only: the
\* tracked base payload, the filter-select, criterion-select and
\* execute-search payloads and every open payload carry it, and every other
\* key of the base payload is in every derived payload.
BaseKeys == {base_payload[i][1] : i \in 1..Len(base_payload)}

C18_OnlyPlaceholderRemoved ==
    /\ DictHas(base_payload, K_J161)
    /\ \A i \in 1..Len(sent) :
          (IsEndpoint(sent[i]) /\ sent[i].method = "POST") =>
             /\ \A k \in BaseKeys \ {K_J161} : DictHas(sent[i].data, k)
             /\ DictHas(sent[i].data, K_J161) <=> Kind(sent[i]) # "criterion_add"
    /\ \A n \in 1..Len(results) :
          \A k \in BaseKeys : DictHas(DictGet(results[n], OPEN_PAYLOAD), k)

C18_Witness ==
    /\ pc = "fill_form"
    /\ Len(results) > 0
    /\ Kind(sent[Len(sent) - 1]) = "criterion_add"
    /\ ~DictHas(sent[Len(sent) - 1].data, K_J161)
    /\ DictHas(Last(sent).data, K_J161)

\* C19: each open payload of a returned list is the tracked base payload plus
\* exactly one row field, that of its own row, and carries the row field of no
\* other row; building the payloads leaves the base payload as it was.
C19_OneRowFieldEach ==
    /\ [](pc = "fill_form" =>
            \A n \in 1..Len(results) :
               LET op == DictGet(results[n], OPEN_PAYLOAD)
               IN  /\ Len(op) = Len(base_payload) + 1
                   /\ SubSeq(op, 1, Len(base_payload)) = base_payload
                   /\ op[Len(op)] = <<PositionField(n - 1), PositionField(n - 1)>>
                   /\ \A m \in 1..Len(results) :
                         m # n => ~DictHas(op, PositionField(m - 1)))
    /\ [][pc = "pesquisar" => base_payload' = base_payload]_vars

C19_Witness ==
    /\ pc = "fill_form"
    /\ Len(results) = 2
    /\ DictGet(results[1], OPEN_PAYLOAD) # DictGet(results[2], OPEN_PAYLOAD)
    /\ DictHas(DictGet(results[2], OPEN_PAYLOAD), PositionField(1))
    /\ ~DictHas(base_payload, PositionField(1))

====
